---- MODULE Spec2Model ----
(***************************************************************************)
(* RatingChart (frontend/src/components/Header.jsx, lines 150-441): the    *)
(* ratings time-series pivot, category reconciliation, anchor search,      *)
(* highlight overlays and Y-axis domain, together with the component's     *)
(* fetch effect (requests in flight, their arrival in any order);          *)
(* getRatingsSeries (frontend/src/lib/api.js), from the payload to the     *)
(* array it resolves to; and the prediction form of GamePrediction         *)
(* (frontend/src/pages/GamePrediction.jsx) with its calls in flight.       *)
(*                                                                         *)
(* JavaScript values are records tagged by t; a string is a sequence of    *)
(* one-character strings, so that String(), slice() and Number() are       *)
(* computed rather than assumed.  Ratings are integers; the axis domain    *)
(* is kept in hundredths (0.08 = 8/100), which is exact for integers.      *)
(***************************************************************************)
EXTENDS Integers, Sequences, FiniteSets, TLC

VARIABLES
  teams,                \* prop: array of team names
  selectedYear,         \* prop: global highlight year (any JS value)
  selectedYearsByTeam,  \* prop: object team -> array | scalar, or undefined
  loading,              \* useState(false)
  error,                \* useState(null)
  data,                 \* useState([]): the reconciled rows
  displayedTeams,       \* useState([])
  highlightDataByTeam,  \* useState({}): team -> array of {year, data}
  pending,              \* getRatingsSeries calls in flight, with their closures
  issued,               \* number of getRatingsSeries calls made so far
  latest,               \* history: the most recently issued call and its outcome
  series,               \* lib/api.js: one getRatingsSeries call, its payload and outcome
  form,                 \* GamePrediction: the useState values of the page
  formCalls,            \* GamePrediction: getTeams, getSeasons, predictGame calls in flight
  event                 \* history: the season, submit or reset handler of
                        \* GamePrediction that ran last, "inactive" after the
                        \* answer to a seasons call whose effect was cleaned up,
                        \* "other" after any other step

chartVars == <<teams, selectedYear, selectedYearsByTeam, loading, error, data,
               displayedTeams, highlightDataByTeam, pending, issued, latest>>

formVars == <<form, formCalls, event>>

vars == <<chartVars, series, formVars>>

\* the parts of the frontend a specification leaves out stay as they are
NoSeries == [state |-> "none"]
NoForm == [mounted |-> FALSE]
NoSeriesCall == series = NoSeries
FormUnmounted ==
  /\ form = NoForm
  /\ formCalls = {}
  /\ event = "none"
ChartOnly == NoSeriesCall /\ FormUnmounted

----------------------------------------------------------------------------
(* JavaScript values *)

Undefined == [t |-> "undefined"]
Null == [t |-> "null"]
Infinity == [t |-> "infinity"]
Num(n) == [t |-> "number", n |-> n]
Str(s) == [t |-> "string", s |-> s]
Arr(a) == [t |-> "array", a |-> a]
Obj(e) == [t |-> "object", e |-> e]

\* v == null (loose equality): null or undefined
IsNullish(v) == v.t \in {"null", "undefined"}

\* typeof v === "number" && Number.isFinite(v)
IsFiniteNumber(v) == v.t = "number"

\* if (v)
Truthy(v) ==
  CASE v.t \in {"null", "undefined"} -> FALSE
    [] v.t = "number" -> v.n # 0
    [] v.t = "string" -> v.s # <<>>
    [] OTHER -> TRUE

\* obj[key] of a plain object held as a function from property names
Get(obj, key) == IF key \in DOMAIN obj THEN obj[key] ELSE Undefined

\* a ?? null
OrNull(v) == IF IsNullish(v) THEN Null ELSE v

----------------------------------------------------------------------------
(* Strings *)

Digits == <<"0", "1", "2", "3", "4", "5", "6", "7", "8", "9">>

DigitVal(c) == (CHOOSE i \in 1..Len(Digits) : Digits[i] = c) - 1

RECURSIVE NatToStr(_)
NatToStr(n) ==
  IF n < Len(Digits) THEN <<Digits[n + 1]>>
  ELSE NatToStr(n \div Len(Digits)) \o <<Digits[(n % Len(Digits)) + 1]>>

\* String(v)
StringOf(v) ==
  CASE v.t = "string" -> v.s
    [] v.t = "number" -> IF v.n < 0 THEN <<"-">> \o NatToStr(-v.n) ELSE NatToStr(v.n)
    [] v.t = "null" -> <<"n", "u", "l", "l">>
    [] v.t = "undefined" -> <<"u", "n", "d", "e", "f", "i", "n", "e", "d">>
    [] v.t = "infinity" -> <<"I", "n", "f", "i", "n", "i", "t", "y">>

\* Number(s) of a string of decimal digits (the empty string is 0)
RECURSIVE NumberOf(_)
NumberOf(s) ==
  IF s = <<>> THEN 0
  ELSE NumberOf(SubSeq(s, 1, Len(s) - 1)) * Len(Digits) + DigitVal(s[Len(s)])

\* s.slice(0, 4)
SliceYear(s) == SubSeq(s, 1, IF Len(s) < 4 THEN Len(s) ELSE 4)

----------------------------------------------------------------------------
(* Pivot: res.forEach(...) into pivotMap, then Array.from(...).sort(...) *)

\* index of the first row whose date is y, 0 when there is none
\* (pivotMap.has / pivotData.findIndex, 1-based)
FindIndex(rows, y) ==
  IF \E i \in 1..Len(rows) : rows[i].date = y
  THEN CHOOSE i \in 1..Len(rows) :
         /\ rows[i].date = y
         /\ \A j \in 1..(i - 1) : rows[j].date # y
  ELSE 0

\* first-write-wins variant of PivotStep
PivotStepKeepFirst(map, ob) ==
  LET year == SliceYear(StringOf(ob.date))
      m1 == IF FindIndex(map, year) = 0 THEN Append(map, [date |-> year]) ELSE map
      i == FindIndex(m1, year)
  IN [m1 EXCEPT ![i] = @ @@ (ob.team :> ob.rating)]

\* one iteration of res.forEach(({date, team, rating}) => ...); the Map is
\* held as the sequence of its values in insertion order
PivotStep(map, ob) ==
  LET year == SliceYear(StringOf(ob.date))
      m1 == IF FindIndex(map, year) = 0 THEN Append(map, [date |-> year]) ELSE map
      i == FindIndex(m1, year)
  IN [m1 EXCEPT ![i] = (ob.team :> ob.rating) @@ @]

RECURSIVE PivotMap(_)
PivotMap(res) ==
  IF res = <<>> THEN <<>>
  ELSE PivotStep(PivotMap(SubSeq(res, 1, Len(res) - 1)), res[Len(res)])

\* rows with `row` placed after every row whose Number(date) is not greater
InsertSorted(rows, row) ==
  LET k == Cardinality({i \in 1..Len(rows) :
                          NumberOf(rows[i].date) <= NumberOf(row.date)})
  IN SubSeq(rows, 1, k) \o <<row>> \o SubSeq(rows, k + 1, Len(rows))

\* variant of SortByDate that leaves the rows in Map insertion order
SortByDateSkipped(rows) == rows

\* rows.sort((a, b) => Number(a.date) - Number(b.date)): a stable sort
RECURSIVE SortByDate(_)
SortByDate(rows) ==
  IF rows = <<>> THEN <<>>
  ELSE InsertSorted(SortByDate(SubSeq(rows, 1, Len(rows) - 1)), rows[Len(rows)])

\* the aggregated rows (pivotData before reconciliation)
Pivot(res) == SortByDate(PivotMap(res))

----------------------------------------------------------------------------
(* Selection: selectedYearsSet and yearsForTeam *)

\* s.add(y) on a Set held as the sequence of its members in insertion order
SetAdd(s, y) == IF \E i \in 1..Len(s) : s[i] = y THEN s ELSE Append(s, y)

RECURSIVE AddArray(_, _)
AddArray(s, a) ==
  IF a = <<>> THEN s
  ELSE LET s1 == AddArray(s, SubSeq(a, 1, Len(a) - 1))
           y == a[Len(a)]
       IN IF IsNullish(y) THEN s1 ELSE SetAdd(s1, StringOf(y))

\* Object.values(selectedYearsByTeam).forEach(...)
RECURSIVE AddValues(_, _)
AddValues(s, entries) ==
  IF entries = <<>> THEN s
  ELSE LET s1 == AddValues(s, SubSeq(entries, 1, Len(entries) - 1))
           val == entries[Len(entries)].v
       IN IF val.t = "array" THEN AddArray(s1, val.a)
          ELSE IF ~IsNullish(val) THEN SetAdd(s1, StringOf(val))
          ELSE s1

selectedYearsSetOf(sy, sybt) ==
  LET s0 == IF Truthy(sy) THEN <<StringOf(sy)>> ELSE <<>>
  IN IF Truthy(sybt) THEN AddValues(s0, sybt.e) ELSE s0

\* selectedYearsByTeam[team]
ByTeamGet(sybt, team) ==
  IF \E i \in 1..Len(sybt.e) : sybt.e[i].k = team
  THEN sybt.e[CHOOSE i \in 1..Len(sybt.e) : sybt.e[i].k = team].v
  ELSE Undefined

\* variant of yearsForTeamOf that adds the global period to a team's own
yearsForTeamWithGlobal(sy, sybt, team) ==
  (IF Truthy(sybt) /\ ~IsNullish(ByTeamGet(sybt, team))
   THEN LET v == ByTeamGet(sybt, team)
        IN IF v.t = "array" THEN [i \in 1..Len(v.a) |-> StringOf(v.a[i])]
           ELSE <<StringOf(v)>>
   ELSE <<>>)
  \o (IF ~IsNullish(sy) THEN <<StringOf(sy)>> ELSE <<>>)

yearsForTeamOf(sy, sybt, team) ==
  IF Truthy(sybt) /\ ~IsNullish(ByTeamGet(sybt, team))
  THEN LET v == ByTeamGet(sybt, team)
       IN IF v.t = "array" THEN [i \in 1..Len(v.a) |-> StringOf(v.a[i])]
          ELSE <<StringOf(v)>>
  ELSE IF ~IsNullish(sy) THEN <<StringOf(sy)>>
  ELSE <<>>

----------------------------------------------------------------------------
(* Category reconciliation *)

\* Array.from(selectedYearsSet).filter((y) => !existingYears.has(y))
MissingYears(pivotData, selSet) ==
  SelectSeq(selSet, LAMBDA y : \A i \in 1..Len(pivotData) : pivotData[i].date # y)

\* variant of Reconcile that never adds a blank row
ReconcileNoBlanks(pivotData, selSet) == pivotData

\* variant of Reconcile that appends the blank rows without sorting again
ReconcileUnsorted(pivotData, selSet) ==
  pivotData \o [i \in 1..Len(MissingYears(pivotData, selSet)) |->
                 [date |-> MissingYears(pivotData, selSet)[i]]]

Reconcile(pivotData, selSet) ==
  LET missingYears == MissingYears(pivotData, selSet)
      blanks == [i \in 1..Len(missingYears) |-> [date |-> missingYears[i]]]
  IN IF Len(missingYears) > 0 THEN SortByDate(pivotData \o blanks) ELSE pivotData

----------------------------------------------------------------------------
(* Highlight overlays and the anchor search *)

\* pivotData.map((row) => ({date: row.date, [team]: ...}))
HighlightRows(pivotData, team, ySel) ==
  [i \in 1..Len(pivotData) |->
     (team :> (IF pivotData[i].date = ySel
               THEN OrNull(Get(pivotData[i], team)) ELSE Null))
     @@ [date |-> pivotData[i].date]]

\* variant of AnchorBackward that takes the first row with a value
AnchorBackwardFarthest(pivotData, team, idx) ==
  LET has == {i \in 1..(idx - 1) : ~IsNullish(Get(pivotData[i], team))}
  IN IF has = {} THEN Null
     ELSE Get(pivotData[CHOOSE i \in has : \A j \in has : i <= j], team)

\* for (let i = idx - 1; i >= 0; i--): the nearest earlier row with a value
AnchorBackward(pivotData, team, idx) ==
  LET has == {i \in 1..(idx - 1) : ~IsNullish(Get(pivotData[i], team))}
  IN IF has = {} THEN Null
     ELSE Get(pivotData[CHOOSE i \in has : \A j \in has : j <= i], team)

\* for (let i = idx + 1; i < pivotData.length; i++): the nearest later row
AnchorForward(pivotData, team, idx) ==
  LET has == {i \in (idx + 1)..Len(pivotData) : ~IsNullish(Get(pivotData[i], team))}
  IN IF has = {} THEN Null
     ELSE Get(pivotData[CHOOSE i \in has : \A j \in has : i <= j], team)

\* variant of Anchor that searches the later rows first
AnchorForwardFirst(pivotData, team, idx) ==
  IF AnchorForward(pivotData, team, idx) # Null
  THEN AnchorForward(pivotData, team, idx)
  ELSE AnchorBackward(pivotData, team, idx)

\* variant of Anchor that falls back to zero when no row has a value
AnchorOrZero(pivotData, team, idx) ==
  IF AnchorBackward(pivotData, team, idx) # Null
  THEN AnchorBackward(pivotData, team, idx)
  ELSE IF AnchorForward(pivotData, team, idx) # Null
  THEN AnchorForward(pivotData, team, idx)
  ELSE Num(0)

Anchor(pivotData, team, idx) ==
  IF AnchorBackward(pivotData, team, idx) # Null
  THEN AnchorBackward(pivotData, team, idx)
  ELSE AnchorForward(pivotData, team, idx)

\* variant of Overlay that copies the team's whole series
OverlayWholeSeries(pivotData, team, ySel) ==
  [year |-> ySel,
   data |-> [i \in 1..Len(pivotData) |->
               (team :> OrNull(Get(pivotData[i], team)))
               @@ [date |-> pivotData[i].date]]]

\* variant of AnchorWrite in which the overlay's rows are the rows of pivotData
AnchorWriteShared(pivotData, hd, idx, team, anchor) ==
  [rows |-> [pivotData EXCEPT ![idx] = (team :> anchor) @@ @],
   hd |-> [hd EXCEPT ![idx] = (team :> anchor) @@ @]]

\* hd[idx][team] = anchor: hd holds objects built by pivotData.map, so the
\* write lands in the overlay's own rows and pivotData is left as it was
AnchorWrite(pivotData, hd, idx, team, anchor) ==
  [rows |-> pivotData,
   hd |-> [hd EXCEPT ![idx] = (team :> anchor) @@ @]]

\* the body of years.forEach((ySelRaw) => ...): pivotData after the iteration
\* and the entry it pushes on m[team]
OverlayStep(pivotData, team, ySel) ==
  LET hd == HighlightRows(pivotData, team, ySel)
      hasCategory == \E i \in 1..Len(pivotData) : pivotData[i].date = ySel
      hasValue == \E i \in 1..Len(pivotData) :
                    /\ pivotData[i].date = ySel
                    /\ ~IsNullish(Get(pivotData[i], team))
      idx == FindIndex(pivotData, ySel)
      anchor == Anchor(pivotData, team, idx)
      written == AnchorWrite(pivotData, hd, idx, team, anchor)
  IN IF hasCategory /\ ~hasValue /\ anchor # Null
     THEN [rows |-> written.rows, entry |-> [year |-> ySel, data |-> written.hd]]
     ELSE [rows |-> pivotData, entry |-> [year |-> ySel, data |-> hd]]

Overlay(pivotData, team, ySel) == OverlayStep(pivotData, team, ySel).entry

\* variant of Push that keeps one overlay per team
PushReplace(m, team, ov) == (team :> <<ov>>) @@ m

\* if (!m[team]) m[team] = []; m[team].push(ov)
Push(m, team, ov) ==
  IF team \in DOMAIN m THEN [m EXCEPT ![team] = Append(@, ov)]
  ELSE (team :> <<ov>>) @@ m

RECURSIVE PushYears(_, _, _, _)
PushYears(m, pivotData, team, years) ==
  IF years = <<>> THEN m
  ELSE Push(PushYears(m, pivotData, team, SubSeq(years, 1, Len(years) - 1)),
            team, Overlay(pivotData, team, years[Len(years)]))

\* (teams || []).forEach((team) => ...) building m
RECURSIVE BuildHighlights(_, _, _, _)
BuildHighlights(pivotData, ts, sy, sybt) ==
  IF ts = <<>> THEN <<>>
  ELSE PushYears(BuildHighlights(pivotData, SubSeq(ts, 1, Len(ts) - 1), sy, sybt),
                 pivotData, ts[Len(ts)], yearsForTeamOf(sy, sybt, ts[Len(ts)]))

\* pivotData as the years.forEach of one team leaves it
RECURSIVE RowsAfterYears(_, _, _)
RowsAfterYears(pivotData, team, years) ==
  IF years = <<>> THEN pivotData
  ELSE RowsAfterYears(OverlayStep(pivotData, team, Head(years)).rows, team, Tail(years))

\* pivotData as the teams.forEach leaves it
RECURSIVE RowsAfterHighlights(_, _, _, _)
RowsAfterHighlights(pivotData, ts, sy, sybt) ==
  IF ts = <<>> THEN pivotData
  ELSE RowsAfterHighlights(
         RowsAfterYears(pivotData, Head(ts), yearsForTeamOf(sy, sybt, Head(ts))),
         Tail(ts), sy, sybt)

----------------------------------------------------------------------------
(* The Y-axis domain *)

PadPercent == 8
MinPad == 10

\* Array.from(new Set(displayedTeams)); only membership is read below
uniqueTeamsOf(dt) == {dt[i] : i \in 1..Len(dt)}

\* the numbers pushed on `values`; only emptiness, min and max are read
DomainValues(rows, uniq) ==
  {Get(rows[i], team).n :
     <<i, team>> \in {p \in (1..Len(rows)) \X uniq : IsFiniteNumber(Get(rows[p[1]], p[2]))}}

SetMin(S) == CHOOSE x \in S : \A y \in S : x <= y
SetMax(S) == CHOOSE x \in S : \A y \in S : y <= x
Abs(x) == IF x < 0 THEN -x ELSE x

\* variant of Pad that pads a flat domain by 8% too, without the floor of 10
PadNoFloor(min, max) == IF max - min > 0 THEN (max - min) * PadPercent
                        ELSE Abs(max) * PadPercent

\* variant of Pad that pads by 8% of the smallest value
PadOfMin(min, max) == IF max - min > 0 THEN Abs(min) * PadPercent
                      ELSE IF MinPad * 100 > Abs(max) * PadPercent
                           THEN MinPad * 100 ELSE Abs(max) * PadPercent

\* variant of Pad that pads by 8% of the span whatever the span is
PadOfSpan(min, max) == (max - min) * PadPercent

\* pad, in hundredths: span > 0 ? span * 0.08 : Math.max(10, Math.abs(max) * 0.08)
Pad(min, max) ==
  IF max - min > 0 THEN (max - min) * PadPercent
  ELSE IF MinPad * 100 > Abs(max) * PadPercent
       THEN MinPad * 100 ELSE Abs(max) * PadPercent

Auto == [auto |-> TRUE]

\* variant of yDomainOf that collects the values of every column of the rows
yDomainOfAllColumns(rows, dt) ==
  LET cols == UNION {DOMAIN rows[i] \ {"date"} : i \in 1..Len(rows)}
      values == DomainValues(rows, cols)
  IN IF Len(rows) = 0 \/ uniqueTeamsOf(dt) = {} \/ values = {} THEN Auto
     ELSE [auto |-> FALSE,
           lo |-> 100 * SetMin(values) - Pad(SetMin(values), SetMax(values)),
           hi |-> 100 * SetMax(values) + Pad(SetMin(values), SetMax(values))]

\* the yDomain memo; ["auto", "auto"] is Auto, [lo, hi] is held in hundredths
yDomainOf(rows, dt) ==
  LET uniq == uniqueTeamsOf(dt)
      values == DomainValues(rows, uniq)
  IN IF Len(rows) = 0 \/ uniq = {} THEN Auto
     ELSE IF values = {} THEN Auto
     ELSE [auto |-> FALSE,
           lo |-> 100 * SetMin(values) - Pad(SetMin(values), SetMax(values)),
           hi |-> 100 * SetMax(values) + Pad(SetMin(values), SetMax(values))]

yDomain == yDomainOf(data, displayedTeams)

----------------------------------------------------------------------------
(* The fetch effect *)

\* what the .then handler computes from the response and its closure
RowsOf(r) ==
  Reconcile(Pivot(r.res), selectedYearsSetOf(r.selectedYear, r.selectedYearsByTeam))

HighlightsOf(r) ==
  BuildHighlights(RowsOf(r), r.teams, r.selectedYear, r.selectedYearsByTeam)

\* the array handed to setData, as the handler leaves it when it returns
StoredRows(r) ==
  RowsAfterHighlights(RowsOf(r), r.teams, r.selectedYear, r.selectedYearsByTeam)

NoCall == [id |-> 0, state |-> "none"]

\* the state right after the effects of a render with props (t, sy, sybt) whose
\* getRatingsSeries call, answered by res, is in flight
Call(id, t, sy, sybt, res) ==
  [id |-> id, teams |-> t, selectedYear |-> sy, selectedYearsByTeam |-> sybt,
   res |-> res]

\* the component mounted with no team selected (TeamStats starts with [])
ChartInit ==
  /\ teams = <<>>
  /\ selectedYear = Undefined
  /\ selectedYearsByTeam = Undefined
  /\ loading = FALSE
  /\ error = Null
  /\ data = <<>>
  /\ displayedTeams = <<>>
  /\ highlightDataByTeam = <<>>
  /\ pending = {}
  /\ issued = 0
  /\ latest = NoCall

Init == ChartInit /\ ChartOnly

\* the component mounted with teams selected: the first call is in flight
Mounted(t, sy, sybt, res) ==
  /\ teams = t
  /\ selectedYear = sy
  /\ selectedYearsByTeam = sybt
  /\ loading = TRUE
  /\ error = Null
  /\ data = <<>>
  /\ displayedTeams = t
  /\ highlightDataByTeam = <<>>
  /\ pending = {Call(1, t, sy, sybt, res)}
  /\ issued = 1
  /\ latest = [id |-> 1, state |-> "pending", call |-> Call(1, t, sy, sybt, res)]
  /\ ChartOnly

\* variant of Render that keeps the rows when the selection becomes empty
RenderKeepsRows(t, sy, sybt, newTeams, res) ==
  /\ newTeams \/ (t = teams)
  /\ newTeams \/ (sy # selectedYear) \/ (sybt # selectedYearsByTeam) \/ (sybt.t = "object")
  /\ teams' = t
  /\ selectedYear' = sy
  /\ selectedYearsByTeam' = sybt
  /\ IF t = <<>>
     THEN /\ data' = data
          /\ displayedTeams' = <<>>
          /\ UNCHANGED <<loading, error, pending, issued, latest>>
     ELSE /\ loading' = TRUE
          /\ error' = Null
          /\ displayedTeams' = IF newTeams THEN t ELSE displayedTeams
          /\ issued' = issued + 1
          /\ pending' = pending \cup {Call(issued + 1, t, sy, sybt, res)}
          /\ latest' = [id |-> issued + 1, state |-> "pending",
                        call |-> Call(issued + 1, t, sy, sybt, res)]
          /\ UNCHANGED data
  /\ UNCHANGED <<highlightDataByTeam, series, formVars>>

\* A render with new props runs the effects whose dependencies changed:
\* setDisplayedTeams(teams || []) when the teams array is a new one, then the
\* fetch effect, which clears the chart for an empty selection and otherwise
\* calls getRatingsSeries; res is the answer the backend will give.
Render(t, sy, sybt, newTeams, res) ==
  /\ newTeams \/ (t = teams)
  /\ newTeams \/ (sy # selectedYear) \/ (sybt # selectedYearsByTeam) \/ (sybt.t = "object")
  /\ teams' = t
  /\ selectedYear' = sy
  /\ selectedYearsByTeam' = sybt
  /\ IF t = <<>>
     THEN /\ data' = <<>>
          /\ displayedTeams' = <<>>
          /\ UNCHANGED <<loading, error, pending, issued, latest>>
     ELSE /\ loading' = TRUE
          /\ error' = Null
          /\ displayedTeams' = IF newTeams THEN t ELSE displayedTeams
          /\ issued' = issued + 1
          /\ pending' = pending \cup {Call(issued + 1, t, sy, sybt, res)}
          /\ latest' = [id |-> issued + 1, state |-> "pending",
                        call |-> Call(issued + 1, t, sy, sybt, res)]
          /\ UNCHANGED data
  /\ UNCHANGED <<highlightDataByTeam, series, formVars>>

\* the .then handler followed by .finally
Resolve(r) ==
  /\ r \in pending
  /\ data' = StoredRows(r)
  /\ highlightDataByTeam' = HighlightsOf(r)
  /\ displayedTeams' = r.teams
  /\ loading' = FALSE
  /\ pending' = pending \ {r}
  /\ latest' = IF latest.id = r.id THEN [latest EXCEPT !.state = "resolved"] ELSE latest
  /\ UNCHANGED <<teams, selectedYear, selectedYearsByTeam, error, issued>>
  /\ UNCHANGED <<series, formVars>>

\* variant of Reject that stores err.message as it is
RejectRawMessage(r, message) ==
  /\ r \in pending
  /\ error' = Str(message)
  /\ data' = <<>>
  /\ displayedTeams' = <<>>
  /\ loading' = FALSE
  /\ pending' = pending \ {r}
  /\ latest' = IF latest.id = r.id THEN [latest EXCEPT !.state = "rejected"] ELSE latest
  /\ UNCHANGED <<teams, selectedYear, selectedYearsByTeam, highlightDataByTeam, issued>>
  /\ UNCHANGED <<series, formVars>>

\* the .catch handler followed by .finally
Reject(r, message) ==
  /\ r \in pending
  /\ error' = Str(IF message = "" THEN "Failed to load rating data" ELSE message)
  /\ data' = <<>>
  /\ displayedTeams' = <<>>
  /\ loading' = FALSE
  /\ pending' = pending \ {r}
  /\ latest' = IF latest.id = r.id THEN [latest EXCEPT !.state = "rejected"] ELSE latest
  /\ UNCHANGED <<teams, selectedYear, selectedYearsByTeam, highlightDataByTeam, issued>>
  /\ UNCHANGED <<series, formVars>>

\* the highlight <Line> elements of the returned tree: none while the chart is
\* not drawn, else one per overlay of each team of uniqueTeams
HighlightLines ==
  IF loading \/ error # Null \/ Len(data) = 0 THEN {}
  ELSE UNION {{[team |-> T, year |-> highlightDataByTeam[T][k].year,
                data |-> highlightDataByTeam[T][k].data] :
                 k \in 1..Len(highlightDataByTeam[T])} :
              T \in uniqueTeamsOf(displayedTeams) \cap DOMAIN highlightDataByTeam}

----------------------------------------------------------------------------
(* lib/api.js: getRatingsSeries, from res.data to the value it resolves to.
   JSON.parse is computed on the characters of the text for the JSON made of
   null, true, false, unsigned integers, strings without escapes, arrays and
   objects, with blanks between tokens; the texts below use no other form. *)

Bool(b) == [t |-> "boolean", b |-> b]

\* \w of a regular expression
WordChars ==
  { "a", "b", "c", "d", "e", "f", "g", "h", "i", "j", "k", "l", "m",
    "n", "o", "p", "q", "r", "s", "t", "u", "v", "w", "x", "y", "z",
    "A", "B", "C", "D", "E", "F", "G", "H", "I", "J", "K", "L", "M",
    "N", "O", "P", "Q", "R", "S", "T", "U", "V", "W", "X", "Y", "Z",
    "0", "1", "2", "3", "4", "5", "6", "7", "8", "9", "_" }

\* /\bNaN\b/ matches at position i of s
MatchesNaN(s, i) ==
  /\ i + 2 <= Len(s)
  /\ SubSeq(s, i, i + 2) = <<"N", "a", "N">>
  /\ (i = 1 \/ s[i - 1] \notin WordChars)
  /\ (i + 3 > Len(s) \/ s[i + 3] \notin WordChars)

\* the text from position i on, each match replaced; matches cannot overlap
RECURSIVE ReplaceNaNFrom(_, _)
ReplaceNaNFrom(s, i) ==
  LET matches == {m \in i..Len(s) : MatchesNaN(s, m)}
  IN IF matches = {} THEN SubSeq(s, i, Len(s))
     ELSE LET m == CHOOSE c \in matches : \A d \in matches : c <= d
          IN SubSeq(s, i, m - 1) \o <<"n", "u", "l", "l">> \o ReplaceNaNFrom(s, m + 3)

\* variant of ReplaceNaN that leaves the text as it is
ReplaceNothing(s) == s

\* payload.replace(/\bNaN\b/g, "null")
ReplaceNaN(s) == ReplaceNaNFrom(s, 1)

Failed == [ok |-> FALSE]
Parsed(v, next) == [ok |-> TRUE, v |-> v, next |-> next]

RECURSIVE SkipBlanks(_, _)
SkipBlanks(s, i) ==
  IF i <= Len(s) /\ s[i] = " " THEN SkipBlanks(s, i + 1) ELSE i

\* the word w stands at position i of s
Literal(s, i, w) == i + Len(w) - 1 <= Len(s) /\ SubSeq(s, i, i + Len(w) - 1) = w

\* the position after the run of digits that starts at i
RECURSIVE DigitsEnd(_, _)
DigitsEnd(s, i) ==
  IF i <= Len(s) /\ (\E d \in 1..Len(Digits) : Digits[d] = s[i])
  THEN DigitsEnd(s, i + 1) ELSE i

\* a number at i: a lone 0, or a run of digits that does not start with 0
ParseNumber(s, i) ==
  IF s[i] = "0" THEN Parsed(Num(0), i + 1)
  ELSE Parsed(Num(NumberOf(SubSeq(s, i, DigitsEnd(s, i) - 1))), DigitsEnd(s, i))

\* a string at i, where s[i] is the opening quote
ParseString(s, i) ==
  LET closing == {j \in (i + 1)..Len(s) : s[j] = "\""}
  IN IF closing = {} THEN Failed
     ELSE LET j == CHOOSE c \in closing : \A d \in closing : c <= d
          IN Parsed(Str(SubSeq(s, i + 1, j - 1)), j + 1)

\* obj[k] = v on the members parsed so far: a repeated name keeps its place
\* and takes the later value
SetMember(e, k, v) ==
  IF \E i \in 1..Len(e) : e[i].k = k
  THEN [i \in 1..Len(e) |-> IF e[i].k = k THEN [k |-> k, v |-> v] ELSE e[i]]
  ELSE Append(e, [k |-> k, v |-> v])

RECURSIVE ParseValue(_, _)
RECURSIVE ParseElements(_, _, _)
RECURSIVE ParseMembers(_, _, _)

ParseValue(s, i0) ==
  LET i == SkipBlanks(s, i0)
  IN IF i > Len(s) THEN Failed
     ELSE IF s[i] = "["
     THEN (IF SkipBlanks(s, i + 1) <= Len(s) /\ s[SkipBlanks(s, i + 1)] = "]"
           THEN Parsed(Arr(<<>>), SkipBlanks(s, i + 1) + 1)
           ELSE ParseElements(s, i + 1, <<>>))
     ELSE IF s[i] = "{"
     THEN (IF SkipBlanks(s, i + 1) <= Len(s) /\ s[SkipBlanks(s, i + 1)] = "}"
           THEN Parsed(Obj(<<>>), SkipBlanks(s, i + 1) + 1)
           ELSE ParseMembers(s, i + 1, <<>>))
     ELSE IF s[i] = "\"" THEN ParseString(s, i)
     ELSE IF \E d \in 1..Len(Digits) : Digits[d] = s[i] THEN ParseNumber(s, i)
     ELSE IF Literal(s, i, <<"n", "u", "l", "l">>) THEN Parsed(Null, i + 4)
     ELSE IF Literal(s, i, <<"t", "r", "u", "e">>) THEN Parsed(Bool(TRUE), i + 4)
     ELSE IF Literal(s, i, <<"f", "a", "l", "s", "e">>) THEN Parsed(Bool(FALSE), i + 5)
     ELSE Failed

\* after "[" or ",": a value, then "," and more of them, or "]"
ParseElements(s, i, acc) ==
  LET r == ParseValue(s, i)
  IN IF ~r.ok THEN Failed
     ELSE LET j == SkipBlanks(s, r.next)
          IN IF j > Len(s) THEN Failed
             ELSE IF s[j] = "," THEN ParseElements(s, j + 1, Append(acc, r.v))
             ELSE IF s[j] = "]" THEN Parsed(Arr(Append(acc, r.v)), j + 1)
             ELSE Failed

\* after "{" or ",": a name, ":", a value, then "," and more of them, or "}"
ParseMembers(s, i0, acc) ==
  LET i == SkipBlanks(s, i0)
  IN IF i > Len(s) \/ s[i] # "\"" THEN Failed
     ELSE LET k == ParseString(s, i)
          IN IF ~k.ok THEN Failed
             ELSE LET c == SkipBlanks(s, k.next)
                  IN IF c > Len(s) \/ s[c] # ":" THEN Failed
                     ELSE LET r == ParseValue(s, c + 1)
                          IN IF ~r.ok THEN Failed
                             ELSE LET j == SkipBlanks(s, r.next)
                                      e == SetMember(acc, k.v.s, r.v)
                                  IN IF j > Len(s) THEN Failed
                                     ELSE IF s[j] = "," THEN ParseMembers(s, j + 1, e)
                                     ELSE IF s[j] = "}" THEN Parsed(Obj(e), j + 1)
                                     ELSE Failed

\* JSON.parse(s): ok is FALSE where it throws
JSONParse(s) ==
  LET r == ParseValue(s, 1)
  IN IF r.ok /\ SkipBlanks(s, r.next) > Len(s) THEN [ok |-> TRUE, v |-> r.v]
     ELSE Failed

DataKey == <<"d", "a", "t", "a">>

\* payload?.data
DataOf(payload) ==
  IF payload.t = "object" /\ (\E i \in 1..Len(payload.e) : payload.e[i].k = DataKey)
  THEN payload.e[CHOOSE i \in 1..Len(payload.e) : payload.e[i].k = DataKey].v
  ELSE Undefined

\* the three returns after the string branch
ArrayOf(payload) ==
  IF DataOf(payload).t = "array" THEN DataOf(payload)
  ELSE IF payload.t = "array" THEN payload
  ELSE Arr(<<>>)

Fulfilled(v) == [state |-> "fulfilled", value |-> v]
Rejected == [state |-> "rejected"]

\* how the promise of getRatingsSeries settles once api.get has resolved with
\* res.data = payload
getRatingsSeries(payload) ==
  IF payload.t = "string"
  THEN LET parsed == JSONParse(ReplaceNaN(payload.s))
       IN IF parsed.ok THEN Fulfilled(ArrayOf(parsed.v)) ELSE Fulfilled(Arr(<<>>))
  ELSE Fulfilled(ArrayOf(payload))

\* api.get has resolved and the call is waiting to run on
Awaiting(payload) == [state |-> "awaiting", payload |-> payload]

\* the rest of getRatingsSeries after the await
Settle ==
  /\ series.state = "awaiting"
  /\ series' = [state |-> getRatingsSeries(series.payload).state,
                payload |-> series.payload,
                outcome |-> getRatingsSeries(series.payload)]
  /\ UNCHANGED <<chartVars, formVars>>

----------------------------------------------------------------------------
(* pages/GamePrediction.jsx: the prediction form.  form holds the useState
   values; team names and messages are plain strings ("" is the empty one),
   seasons are JavaScript values.  A handler and the effects of the render
   that follows it are one step. *)

\* const sameTeam = homeTeam && awayTeam && homeTeam === awayTeam, as a condition
sameTeam(f) == f.homeTeam # "" /\ f.awayTeam # "" /\ f.homeTeam = f.awayTeam

canLinkSeasons(f) == ~sameTeam(f)

\* the useState initial values
FormMounted ==
  [mounted |-> TRUE, teams |-> <<>>, homeTeam |-> "", awayTeam |-> "",
   homeSeasons |-> <<>>, awaySeasons |-> <<>>,
   homeSeason |-> Undefined, awaySeason |-> Undefined,
   linkSeasons |-> TRUE, loading |-> FALSE, loadingTeams |-> TRUE,
   error |-> "", result |-> Null]

TeamsCall == [kind |-> "teams", active |-> TRUE]

\* getSeasons(team) called by the effect of one side, with the two conditions
\* its handler reads from the closure of the render f: !homeSeason (or
\* !awaySeason) and linkSeasons && canLinkSeasons
SeasonsCall(side, f) ==
  [kind |-> "seasons", side |-> side, active |-> TRUE,
   team |-> IF side = "home" THEN f.homeTeam ELSE f.awayTeam,
   noSeason |-> ~Truthy(IF side = "home" THEN f.homeSeason ELSE f.awaySeason),
   linked |-> f.linkSeasons /\ canLinkSeasons(f)]

PredictCall(f) ==
  [kind |-> "predict",
   body |-> [home_team |-> f.homeTeam, home_season |-> f.homeSeason,
             away_team |-> f.awayTeam, away_season |-> f.awaySeason]]

\* a seasons call whose effect has been cleaned up: active is false and
\* nothing of its closure is read any more
Stale(side) == [kind |-> "seasons", side |-> side, active |-> FALSE]

\* variant of Cleanup that leaves the flag of the earlier effect set
CleanupKeepsActive(calls, side) == calls

\* the cleanup of a seasons effect: active = false
Cleanup(calls, side) ==
  {IF c.kind = "seasons" /\ c.side = side THEN Stale(side) ELSE c : c \in calls}

\* the seasons effect of one side after the render of g that follows f: it
\* runs when the side's team has changed
SeasonsEffect(calls, side, f, g) ==
  LET before == IF side = "home" THEN f.homeTeam ELSE f.awayTeam
      after == IF side = "home" THEN g.homeTeam ELSE g.awayTeam
  IN IF before = after THEN calls
     ELSE IF after = "" THEN Cleanup(calls, side)
     ELSE Cleanup(calls, side) \cup {SeasonsCall(side, g)}

Effects(calls, f, g) ==
  SeasonsEffect(SeasonsEffect(calls, "home", f, g), "away", f, g)

\* a handler has set the state to g: the render and its effects
Handled(name, g) ==
  /\ form' = g
  /\ formCalls' = Effects(formCalls, form, g)
  /\ event' = name
  /\ UNCHANGED <<chartVars, series>>

\* the same once call c has been answered
AnsweredAs(name, c, g) ==
  /\ form' = g
  /\ formCalls' = Effects(formCalls \ {c}, form, g)
  /\ event' = name
  /\ UNCHANGED <<chartVars, series>>

Answered(c, g) == AnsweredAs("other", c, g)

\* err.message || fallback
MessageOr(message, fallback) == IF message = "" THEN fallback ELSE message

\* the teams effect once getTeams has resolved with list
TeamsArrive(c, list) ==
  /\ c \in formCalls /\ c.kind = "teams"
  /\ Answered(c,
       IF ~c.active THEN form
       ELSE [form EXCEPT
               !.teams = list,
               !.homeTeam = IF Len(list) >= 1 THEN list[1] ELSE @,
               !.awayTeam = IF Len(list) >= 2 THEN list[2] ELSE @,
               !.loadingTeams = FALSE])

\* the teams effect once getTeams has rejected
TeamsFail(c, message) ==
  /\ c \in formCalls /\ c.kind = "teams"
  /\ Answered(c,
       IF ~form.mounted THEN form
       ELSE [form EXCEPT
               !.error = MessageOr(message, "Failed to load teams"),
               !.loadingTeams = IF c.active THEN FALSE ELSE @])

\* a seasons effect once getSeasons has resolved with list
SeasonsArrive(c, list) ==
  /\ c \in formCalls /\ c.kind = "seasons"
  /\ AnsweredAs(IF c.active THEN "other" ELSE "inactive", c,
       IF ~c.active THEN form
       ELSE LET select == c.noSeason /\ Len(list) > 0
                link == select /\ c.linked
            IN IF c.side = "home"
               THEN [form EXCEPT
                       !.homeSeasons = list,
                       !.homeSeason = IF select THEN list[1] ELSE @,
                       !.awaySeason = IF link THEN list[1] ELSE @]
               ELSE [form EXCEPT
                       !.awaySeasons = list,
                       !.awaySeason = IF select THEN list[1] ELSE @,
                       !.homeSeason = IF link THEN list[1] ELSE @])

\* a seasons effect once getSeasons has rejected: the catch does not read active
SeasonsFail(c, message) ==
  /\ c \in formCalls /\ c.kind = "seasons"
  /\ Answered(c,
       IF ~form.mounted THEN form
       ELSE [form EXCEPT
               !.error = MessageOr(message,
                           IF c.side = "home" THEN "Failed to load seasons for home team"
                           ELSE "Failed to load seasons for away team")])

\* onTeam of the home card
onHomeTeam(f, t) ==
  [f EXCEPT !.homeTeam = t,
            !.linkSeasons = IF ~canLinkSeasons(f) /\ f.linkSeasons THEN FALSE ELSE @,
            !.homeSeason = Undefined,
            !.homeSeasons = <<>>]

\* onTeam of the away card
onAwayTeam(f, t) ==
  [f EXCEPT !.awayTeam = t,
            !.linkSeasons = IF ~canLinkSeasons(f) /\ f.linkSeasons THEN FALSE ELSE @,
            !.awaySeason = Undefined,
            !.awaySeasons = <<>>]

\* variant of onHomeSeasonChange that links whenever linkSeasons is set
onHomeSeasonChangeAlwaysLinked(f, year) ==
  [f EXCEPT !.homeSeason = year,
            !.awaySeason = IF f.linkSeasons THEN year ELSE @]

onHomeSeasonChange(f, year) ==
  [f EXCEPT !.homeSeason = year,
            !.awaySeason = IF f.linkSeasons /\ canLinkSeasons(f) THEN year ELSE @]

onAwaySeasonChange(f, year) ==
  [f EXCEPT !.awaySeason = year,
            !.homeSeason = IF f.linkSeasons /\ canLinkSeasons(f) THEN year ELSE @]

\* the options of a season select that are disabled
disabledHomeSeasons(f) ==
  IF sameTeam(f) /\ f.awaySeason.t = "number" THEN {f.awaySeason} ELSE {}

disabledAwaySeasons(f) ==
  IF sameTeam(f) /\ f.homeSeason.t = "number" THEN {f.homeSeason} ELSE {}

\* Number(e.target.value) of the option rendered for yr
OptionValue(yr) == Num(NumberOf(StringOf(yr)))

swapTeams(f) ==
  [f EXCEPT !.homeTeam = f.awayTeam, !.awayTeam = f.homeTeam,
            !.homeSeason = f.awaySeason, !.awaySeason = f.homeSeason]

resetAll(f) ==
  [f EXCEPT !.homeTeam = IF Len(f.teams) >= 1 THEN f.teams[1] ELSE "",
            !.awayTeam = IF Len(f.teams) >= 2 THEN f.teams[2] ELSE "",
            !.homeSeasons = <<>>, !.awaySeasons = <<>>,
            !.homeSeason = Undefined, !.awaySeason = Undefined,
            !.linkSeasons = TRUE, !.error = "", !.result = Null]

\* onChange of the checkbox, whose checked is linkSeasons && canLinkSeasons
toggleLink(f) ==
  [f EXCEPT !.linkSeasons = ~(f.linkSeasons /\ canLinkSeasons(f)) /\ canLinkSeasons(f)]

\* variant of validate without the rule for one team on both sides
validateSelectionOnly(f) ==
  IF f.homeTeam = "" \/ f.awayTeam = "" \/ ~Truthy(f.homeSeason) \/ ~Truthy(f.awaySeason)
  THEN "Please select teams and seasons for both sides"
  ELSE ""

validate(f) ==
  IF f.homeTeam = "" \/ f.awayTeam = "" \/ ~Truthy(f.homeSeason) \/ ~Truthy(f.awaySeason)
  THEN "Please select teams and seasons for both sides"
  ELSE IF sameTeam(f) /\ f.homeSeason = f.awaySeason
  THEN "If the same team is chosen the seasons must differ"
  ELSE ""

Elements(list) == {list[i] : i \in 1..Len(list)}

HomeTeamPicked(t) ==
  /\ form.mounted /\ t \in Elements(form.teams) /\ t # form.homeTeam
  /\ Handled("other", onHomeTeam(form, t))

AwayTeamPicked(t) ==
  /\ form.mounted /\ t \in Elements(form.teams) /\ t # form.awayTeam
  /\ Handled("other", onAwayTeam(form, t))

HomeSeasonPicked(yr) ==
  /\ form.mounted
  /\ yr \in Elements(form.homeSeasons) \ disabledHomeSeasons(form)
  /\ OptionValue(yr) # form.homeSeason
  /\ Handled("onHomeSeasonChange", onHomeSeasonChange(form, OptionValue(yr)))

AwaySeasonPicked(yr) ==
  /\ form.mounted
  /\ yr \in Elements(form.awaySeasons) \ disabledAwaySeasons(form)
  /\ OptionValue(yr) # form.awaySeason
  /\ Handled("onAwaySeasonChange", onAwaySeasonChange(form, OptionValue(yr)))

SwapClicked == form.mounted /\ Handled("other", swapTeams(form))

ResetClicked == form.mounted /\ Handled("resetAll", resetAll(form))

LinkToggled == form.mounted /\ Handled("other", toggleLink(form))

\* the form submitted; the submit button is disabled while loading
onPredict ==
  /\ form.mounted /\ ~form.loading
  /\ IF validate(form) # ""
     THEN /\ form' = [form EXCEPT !.error = validate(form)]
          /\ formCalls' = formCalls
     ELSE /\ form' = [form EXCEPT !.error = "", !.loading = TRUE, !.result = Null]
          /\ formCalls' = formCalls \cup {PredictCall(form)}
  /\ event' = "onPredict"
  /\ UNCHANGED <<chartVars, series>>

\* the data /predict answers with; the form only reads it when rendering
Prediction == [model_version |-> "v1"]

PredictArrive(c) ==
  /\ c \in formCalls /\ c.kind = "predict"
  /\ Answered(c,
       IF ~form.mounted THEN form
       ELSE [form EXCEPT !.result = Prediction, !.loading = FALSE])

PredictFail(c, message) ==
  /\ c \in formCalls /\ c.kind = "predict"
  /\ Answered(c,
       IF ~form.mounted THEN form
       ELSE [form EXCEPT !.error = MessageOr(message, "Prediction failed"),
                         !.loading = FALSE])

\* the page is left: every effect's cleanup runs
Unmount ==
  /\ form.mounted
  /\ form' = [form EXCEPT !.mounted = FALSE]
  /\ formCalls' = {IF c.kind = "teams" THEN [c EXCEPT !.active = FALSE] ELSE c :
                     c \in Cleanup(Cleanup(formCalls, "home"), "away")}
  /\ event' = "other"
  /\ UNCHANGED <<chartVars, series>>

----------------------------------------------------------------------------
(* Inputs *)

MaxObs == 3
MaxCalls == 2

Y2021 == <<"2", "0", "2", "1">>
Y2022 == <<"2", "0", "2", "2">>
Y2023 == <<"2", "0", "2", "3">>

\* GAME_DATE strings of the backend: an ISO date, the year first
Mar2021 == Str(Y2021 \o <<"-", "0", "3", "-", "1", "4">>)
Nov2021 == Str(Y2021 \o <<"-", "1", "1", "-", "0", "2">>)
Jan2022 == Str(Y2022 \o <<"-", "0", "1", "-", "2", "0">>)
Feb2023 == Str(Y2023 \o <<"-", "0", "2", "-", "0", "7">>)

Ob(date, team, rating) == [date |-> date, team |-> team, rating |-> rating]

SeqsUpTo(S, n) == UNION {[1..k -> S] : k \in 0..n}

\* selections: <<selectedYear, selectedYearsByTeam>>
ByTeam(team, v) == [k |-> team, v |-> v]

Selections ==
  { <<Undefined, Undefined>>,
    <<Num(2022), Undefined>>,
    <<Undefined, Obj(<<ByTeam("A", Arr(<<Str(Y2022)>>))>>)>>,
    <<Str(Y2021), Obj(<<ByTeam("A", Arr(<<Str(Y2022), Num(2023)>>))>>)>>,
    <<Undefined, Obj(<<ByTeam("B", Str(Y2022)), ByTeam("A", Arr(<<Str(Y2023), Str(Y2021)>>))>>)>>,
    <<Num(2022), Obj(<<ByTeam("A", Arr(<<>>))>>)>> }

\* observations for the pivot, reconciliation and overlay properties
FetchObs ==
  { Ob(Mar2021, "A", Num(5)), Ob(Mar2021, "A", Num(9)),
    Ob(Nov2021, "A", Num(5)), Ob(Nov2021, "A", Num(9)),
    Ob(Feb2023, "A", Num(5)), Ob(Feb2023, "A", Num(9)),
    Ob(Feb2023, "A", Null), Ob(Jan2022, "B", Num(7)) }

FetchTeams == { <<"A">>, <<"A", "B">>, <<"B", "A">> }

InitFetch ==
  \E t \in FetchTeams, sel \in Selections, res \in SeqsUpTo(FetchObs, MaxObs) :
    Mounted(t, sel[1], sel[2], res)

\* the observations of the worked example and one more for team A
ExampleObs ==
  { Ob(Mar2021, "A", Num(100)), Ob(Jan2022, "A", Num(110)),
    Ob(Jan2022, "B", Num(90)), Ob(Feb2023, "A", Num(120)) }

ExampleTeams == { <<"A", "B">>, <<"B", "A">> }

ExampleSelections ==
  { <<Undefined, Undefined>>,
    <<Undefined, Obj(<<ByTeam("A", Arr(<<Str(Y2023)>>))>>)>> }

InitExample ==
  \E t \in ExampleTeams, sel \in ExampleSelections, res \in SeqsUpTo(ExampleObs, MaxObs) :
    Mounted(t, sel[1], sel[2], res)

\* selections whose global period is a value other than null and undefined
\* that an if () takes for false, and one with such a value for a team
PeriodSelections ==
  Selections \cup
  { <<Num(0), Undefined>>,
    <<Str(<<>>), Undefined>>,
    <<Undefined, Obj(<<ByTeam("A", Num(0))>>)>> }

InitPeriods ==
  \E t \in FetchTeams, sel \in PeriodSelections, res \in SeqsUpTo(ExampleObs, MaxObs) :
    Mounted(t, sel[1], sel[2], res)

\* observations for the axis-domain properties
DomainObs ==
  { Ob(Mar2021, "A", Num(10)), Ob(Jan2022, "A", Num(20)), Ob(Feb2023, "A", Num(30)),
    Ob(Mar2021, "A", Num(50)), Ob(Jan2022, "A", Num(50)), Ob(Jan2022, "A", Num(-200)),
    Ob(Feb2023, "A", Infinity), Ob(Feb2023, "A", Null),
    Ob(Mar2021, "B", Num(30)), Ob(Jan2022, "B", Num(200)) }

DomainTeams == { <<"A">>, <<"A", "B">>, <<"B">> }

\* no highlight, or the global period 2022
DomainSelections == { <<Undefined, Undefined>>, <<Num(2022), Undefined>> }

InitDomain ==
  \E t \in DomainTeams, sel \in DomainSelections, res \in SeqsUpTo(DomainObs, MaxObs) :
    Mounted(t, sel[1], sel[2], res)

\* props and answers of the component run
ChartTeams == { <<>>, <<"A">>, <<"A", "B">> }

ChartSelections ==
  { <<Undefined, Undefined>>,
    <<Undefined, Obj(<<ByTeam("A", Arr(<<Str(Y2022)>>))>>)>> }

ChartAnswers ==
  { <<Ob(Mar2021, "A", Num(5))>>,
    <<Ob(Mar2021, "A", Num(9)), Ob(Jan2022, "B", Num(7))>> }

\* a float NaN in a value the backend serialises
NotANumber == [t |-> "nan"]

Member(k, v) == [k |-> k, v |-> v]

RECURSIVE Join(_)
Join(parts) ==
  IF parts = <<>> THEN <<>>
  ELSE IF Len(parts) = 1 THEN parts[1]
  ELSE parts[1] \o <<",", " ">> \o Join(Tail(parts))

\* the response body a JSON encoder that lets NaN through writes for v
RECURSIVE BodyOf(_)
BodyOf(v) ==
  IF v.t = "nan" THEN <<"N", "a", "N">>
  ELSE IF v.t = "null" THEN <<"n", "u", "l", "l">>
  ELSE IF v.t = "boolean"
  THEN (IF v.b THEN <<"t", "r", "u", "e">> ELSE <<"f", "a", "l", "s", "e">>)
  ELSE IF v.t = "number" THEN NatToStr(v.n)
  ELSE IF v.t = "string" THEN <<"\"">> \o v.s \o <<"\"">>
  ELSE IF v.t = "array"
  THEN <<"[">> \o Join([i \in 1..Len(v.a) |-> BodyOf(v.a[i])]) \o <<"]">>
  ELSE <<"{">>
       \o Join([i \in 1..Len(v.e) |->
                  <<"\"">> \o v.e[i].k \o <<"\"", ":", " ">> \o BodyOf(v.e[i].v)])
       \o <<"}">>

KeyDate == <<"d", "a", "t", "e">>
KeyTeam == <<"t", "e", "a", "m">>
KeyRating == <<"r", "a", "t", "i", "n", "g">>
KeyError == <<"e", "r", "r", "o", "r">>
KeyCount == <<"c", "o", "u", "n", "t">>

\* an observation as the backend sends it
Row(year, team, rating) ==
  Obj(<<Member(KeyDate, Str(year)), Member(KeyTeam, Str(<<team>>)),
        Member(KeyRating, rating)>>)

\* values the backend may serialise
BodyValues ==
  { Arr(<<>>),
    Arr(<<Num(1), NotANumber>>),
    Arr(<<Row(Y2021, "A", NotANumber), Row(Y2022, "A", Num(12))>>),
    Arr(<<Arr(<<>>), Obj(<<>>)>>),
    Obj(<<Member(DataKey, Arr(<<>>))>>),
    Obj(<<Member(DataKey, Arr(<<Row(Y2021, "A", NotANumber)>>))>>),
    Obj(<<Member(DataKey, Arr(<<NotANumber, Num(120)>>))>>),
    Obj(<<Member(KeyCount, Num(2)), Member(DataKey, Arr(<<Num(1), Num(0)>>))>>),
    Obj(<<Member(DataKey, Null)>>),
    Obj(<<Member(DataKey, NotANumber)>>),
    Obj(<<Member(DataKey, Obj(<<Member(DataKey, Arr(<<Num(1)>>))>>))>>),
    Obj(<<Member(KeyError, Str(<<"x">>))>>),
    Obj(<<>>),
    Null, NotANumber, Num(7), Bool(TRUE), Bool(FALSE), Str(<<"A">>) }

\* an array holding the name "NaN": the word is inside a string literal
QuotedNaN == Arr(<<Str(<<"N", "a", "N">>)>>)

RECURSIVE HasNaN(_)
HasNaN(v) ==
  IF v.t = "nan" THEN TRUE
  ELSE IF v.t = "array" THEN \E i \in 1..Len(v.a) : HasNaN(v.a[i])
  ELSE IF v.t = "object" THEN \E i \in 1..Len(v.e) : HasNaN(v.e[i].v)
  ELSE FALSE

\* texts that are not JSON, with or without NaN in them
UnparsableTexts ==
  { <<>>,
    <<"[">>,
    <<"[", "1", ",", "]">>,
    <<"[", "1", " ", "1", "]">>,
    <<"[", "N", "a", "N">>,
    <<"N", "a", "N", "]">>,
    <<"-", "N", "a", "N">>,
    <<"[", "N", "a", "N", "s", "]">>,
    <<"{", "\"", "d", "a", "t", "a", "\"", "}">>,
    <<"{", "d", "a", "t", "a", ":", "[", "]", "}">>,
    <<"<", "h", "t", "m", "l", ">">>,
    <<"u", "n", "d", "e", "f", "i", "n", "e", "d">> }

MaxText == 3

TextChars == {"[", "]", "{", "}", ",", "\"", "1", "N", "a"}

\* res.data: a text axios could not parse, or the value it parsed
Payloads ==
  {Str(BodyOf(v)) : v \in BodyValues \cup {QuotedNaN}}
  \cup {Str(s) : s \in UnparsableTexts \cup SeqsUpTo(TextChars, MaxText)}
  \cup {v \in BodyValues : ~HasNaN(v)}
  \cup {Undefined}

InitSeries ==
  /\ ChartInit
  /\ FormUnmounted
  /\ \E p \in Payloads : series = Awaiting(p)

\* calls of the prediction form in flight at once
MaxInFlight == 2

\* what /teams may answer
TeamLists == { <<"A", "B">>, <<"A">> }

\* what /seasons answers for a team, latest first
SeasonsOf(team) ==
  IF team = "A" THEN <<Num(2022), Num(2021)>> ELSE <<Num(2021)>>

\* the message of a failed request: the response interceptor of lib/api.js
\* always supplies one
FormMessages == {"Network Error"}

InitForm ==
  /\ ChartInit
  /\ NoSeriesCall
  /\ form = FormMounted
  /\ formCalls = {TeamsCall}
  /\ event = "other"

Messages == {"", "Network Error"}

----------------------------------------------------------------------------
(* Specifications *)

RenderStep ==
  \E t \in ChartTeams, sel \in ChartSelections, newTeams \in BOOLEAN,
     res \in ChartAnswers :
    /\ (t # <<>>) => issued < MaxCalls
    /\ Render(t, sel[1], sel[2], newTeams, res)

ResolveStep == \E r \in pending : Resolve(r)

RejectStep == \E r \in pending, message \in Messages : Reject(r, message)

Next == RenderStep \/ ResolveStep \/ RejectStep

\* the component from mount, under any sequence of renders and arrivals
Spec == Init /\ [][Next]_vars

\* one call and its arrival, over every bounded response
SpecFetch == InitFetch /\ [][ResolveStep]_vars

SpecDomain == InitDomain /\ [][ResolveStep]_vars

SpecExample == InitExample /\ [][ResolveStep]_vars

\* one call and its arrival, over selections of any value
SpecPeriods == InitPeriods /\ [][ResolveStep]_vars

SpecSeries == InitSeries /\ [][Settle]_vars

InFlightBound == Cardinality(formCalls') <= MaxInFlight

TeamsArriveStep ==
  \E c \in formCalls, list \in TeamLists : TeamsArrive(c, list)

TeamsFailStep ==
  \E c \in formCalls, message \in FormMessages : TeamsFail(c, message)

SeasonsArriveStep ==
  \E c \in formCalls : c.kind = "seasons" /\ SeasonsArrive(c, SeasonsOf(c.team))

SeasonsFailStep ==
  \E c \in formCalls, message \in FormMessages : SeasonsFail(c, message)

TeamPickedStep ==
  \E t \in {"A", "B"} : (HomeTeamPicked(t) \/ AwayTeamPicked(t)) /\ InFlightBound

SeasonPickedStep ==
  \E yr \in Elements(form.homeSeasons) \cup Elements(form.awaySeasons) :
    HomeSeasonPicked(yr) \/ AwaySeasonPicked(yr)

SwapStep == SwapClicked /\ InFlightBound

ResetStep == ResetClicked /\ InFlightBound

PredictStep == onPredict /\ InFlightBound

PredictArriveStep == \E c \in formCalls : PredictArrive(c)

PredictFailStep == \E c \in formCalls, message \in FormMessages : PredictFail(c, message)

NextForm ==
  \/ TeamsArriveStep \/ TeamsFailStep
  \/ SeasonsArriveStep \/ SeasonsFailStep
  \/ TeamPickedStep \/ SeasonPickedStep
  \/ SwapStep \/ ResetStep \/ LinkToggled
  \/ PredictStep \/ PredictArriveStep \/ PredictFailStep
  \/ Unmount

SpecForm == InitForm /\ [][NextForm]_vars

----------------------------------------------------------------------------
(* Vocabulary of the properties *)

\* the latest call has arrived and its .then handler has run
Resolved == latest.state = "resolved"

\* the team has a value in the row
Present(row, T) == T \in DOMAIN row /\ row[T].t \notin {"null", "undefined"}

EarlierWith(rows, T, i) == {j \in 1..(i - 1) : Present(rows[j], T)}
LaterWith(rows, T, i) == {j \in (i + 1)..Len(rows) : Present(rows[j], T)}

\* the anchor of section 4.3: nearest earlier value, else nearest later, else none
ExpectedAnchor(rows, T, i) ==
  IF EarlierWith(rows, T, i) # {} THEN rows[SetMax(EarlierWith(rows, T, i))][T]
  ELSE IF LaterWith(rows, T, i) # {} THEN rows[SetMin(LaterWith(rows, T, i))][T]
  ELSE Null

\* the period key of an observation
YearOf(ob) == SliceYear(StringOf(ob.date))

InputYears(res) == {YearOf(res[k]) : k \in 1..Len(res)}

PeriodsOfValue(v) ==
  IF v.t = "array" THEN {StringOf(v.a[j]) : j \in 1..Len(v.a)}
  ELSE IF IsNullish(v) THEN {} ELSE {StringOf(v)}

\* every period the selection of a call refers to, global or per team
ReferencedPeriods(call) ==
  (IF IsNullish(call.selectedYear) THEN {} ELSE {StringOf(call.selectedYear)})
  \cup (IF call.selectedYearsByTeam.t = "object"
        THEN UNION {PeriodsOfValue(call.selectedYearsByTeam.e[i].v) :
                      i \in 1..Len(call.selectedYearsByTeam.e)}
        ELSE {})

\* the overlays stored for a team
OverlaysOf(T) == Get(highlightDataByTeam, T)

----------------------------------------------------------------------------
(* C1: where a team has no value at a highlighted period that is a row, the
   overlay's point there is the value of the nearest earlier row with a value;
   the nearest later row is used only when no earlier row has one. *)
C1_AnchorPrefersPast ==
  Resolved =>
    \A T \in DOMAIN highlightDataByTeam : \A k \in 1..Len(highlightDataByTeam[T]) :
      \A i \in 1..Len(data) :
        LET ov == highlightDataByTeam[T][k]
            earlier == EarlierWith(data, T, i)
            later == LaterWith(data, T, i)
        IN (data[i].date = ov.year /\ ~Present(data[i], T)) =>
             /\ (earlier # {}) => ov.data[i][T] = data[SetMax(earlier)][T]
             /\ (earlier = {} /\ later # {}) => ov.data[i][T] = data[SetMin(later)][T]

\* a gap with different values before and after it, anchored on the earlier one
C1_Witness ==
  /\ Resolved
  /\ \E T \in DOMAIN highlightDataByTeam : \E k \in 1..Len(highlightDataByTeam[T]) :
       \E i \in 1..Len(data) :
         LET ov == highlightDataByTeam[T][k]
             earlier == EarlierWith(data, T, i)
             later == LaterWith(data, T, i)
         IN /\ data[i].date = ov.year
            /\ ~Present(data[i], T)
            /\ earlier # {}
            /\ later # {}
            /\ data[SetMax(earlier)][T] # data[SetMin(later)][T]
            /\ ov.data[i][T] = data[SetMax(earlier)][T]

(* C2: every period the selection refers to that no observation falls in has
   exactly one row in the reconciled rows, and that row has no value for any
   team. *)
C2_BlankRowPerMissingPeriod ==
  Resolved =>
    \A y \in ReferencedPeriods(latest.call) \ InputYears(latest.call.res) :
      /\ Cardinality({i \in 1..Len(data) : data[i].date = y}) = 1
      /\ \A i \in 1..Len(data) : (data[i].date = y) => (DOMAIN data[i] = {"date"})

\* two selected periods are missing from a non-empty response
C2_Witness ==
  /\ Resolved
  /\ latest.call.res # <<>>
  /\ Cardinality(ReferencedPeriods(latest.call) \ InputYears(latest.call.res)) >= 2
  /\ \A y \in ReferencedPeriods(latest.call) \ InputYears(latest.call.res) :
       \E i \in 1..Len(data) : data[i].date = y /\ DOMAIN data[i] = {"date"}

(* C3: the aggregated rows hold exactly one row per distinct period key of the
   input, in strictly ascending numeric order of the keys, whatever the input
   order; an empty input gives no row. *)
C3_PivotUniqueAscending ==
  LET res == latest.call.res
      agg == Pivot(res)
  IN /\ {agg[i].date : i \in 1..Len(agg)} = InputYears(res)
     /\ Len(agg) = Cardinality(InputYears(res))
     /\ \A i \in 1..(Len(agg) - 1) : NumberOf(agg[i].date) < NumberOf(agg[i + 1].date)
     /\ (res = <<>>) => (agg = <<>>)

\* a later year arrives before an earlier one and a year arrives twice
C3_Witness ==
  LET res == latest.call.res
      agg == Pivot(res)
  IN /\ Resolved
     /\ \E a, b \in 1..Len(res) :
          a < b /\ NumberOf(YearOf(res[a])) > NumberOf(YearOf(res[b]))
     /\ \E c, d \in 1..Len(res) :
          c # d /\ res[c].date # res[d].date /\ YearOf(res[c]) = YearOf(res[d])
     /\ Len(agg) = 2
     /\ NumberOf(agg[1].date) < NumberOf(agg[2].date)
     /\ data = agg

(* C4: when several observations share a (period, team) pair, the row of that
   period holds for that team the rating of the one that comes last in the
   input. *)
C4_LastWriteWins ==
  Resolved =>
    LET res == latest.call.res
    IN \A k \in 1..Len(res) :
         LET same == {j \in 1..Len(res) :
                        YearOf(res[j]) = YearOf(res[k]) /\ res[j].team = res[k].team}
         IN /\ \E i \in 1..Len(data) : data[i].date = YearOf(res[k])
            /\ \A i \in 1..Len(data) :
                 (data[i].date = YearOf(res[k])) =>
                   Get(data[i], res[k].team) = res[SetMax(same)].rating

\* two dates of one year for one team with different ratings
C4_Witness ==
  /\ Resolved
  /\ \E j, k \in 1..Len(latest.call.res) :
       LET res == latest.call.res
       IN /\ j < k
          /\ res[j].date # res[k].date
          /\ YearOf(res[j]) = YearOf(res[k])
          /\ res[j].team = res[k].team
          /\ res[j].rating # res[k].rating
          /\ \A l \in (k + 1)..Len(res) : YearOf(res[l]) # YearOf(res[k])
          /\ \E i \in 1..Len(data) :
               data[i].date = YearOf(res[k]) /\ data[i][res[k].team] = res[k].rating

(* C5: an overlay has one point per reconciled row, in the rows' order; every
   point is absent but the one at the overlay's period, which is the team's
   value there when it has one and the anchor otherwise. *)
C5_OverlayIsolatesPeriod ==
  Resolved =>
    \A T \in DOMAIN highlightDataByTeam : \A k \in 1..Len(highlightDataByTeam[T]) :
      LET ov == highlightDataByTeam[T][k]
      IN /\ Len(ov.data) = Len(data)
         /\ \A i \in 1..Len(data) :
              /\ ov.data[i].date = data[i].date
              /\ DOMAIN ov.data[i] = {"date", T}
              /\ ov.data[i][T] =
                   IF data[i].date # ov.year THEN Null
                   ELSE IF Present(data[i], T) THEN data[i][T]
                   ELSE ExpectedAnchor(data, T, i)

\* an overlay over three rows carrying the team's own value at its period while
\* the team's other value is left out
C5_Witness ==
  /\ Resolved
  /\ Len(data) >= 3
  /\ \E T \in DOMAIN highlightDataByTeam : \E k \in 1..Len(highlightDataByTeam[T]) :
       \E i, j \in 1..Len(data) :
         LET ov == highlightDataByTeam[T][k]
         IN /\ i # j
            /\ data[i].date = ov.year
            /\ Present(data[i], T)
            /\ ov.data[i][T] = data[i][T]
            /\ Present(data[j], T)
            /\ ov.data[j][T] = Null

\* the periods selected for a team: its own entry when it has one, else the
\* global period
SelectedPeriods(call, T) ==
  LET own == IF call.selectedYearsByTeam.t = "object"
             THEN {i \in 1..Len(call.selectedYearsByTeam.e) :
                     /\ call.selectedYearsByTeam.e[i].k = T
                     /\ ~IsNullish(call.selectedYearsByTeam.e[i].v)}
             ELSE {}
  IN IF own # {}
     THEN UNION {PeriodsOfValue(call.selectedYearsByTeam.e[i].v) : i \in own}
     ELSE IF IsNullish(call.selectedYear) THEN {}
     ELSE {StringOf(call.selectedYear)}

(* C6: for every team passed to the chart there is exactly one overlay per
   (team, selected period) pair: as many overlays as the team has selected
   periods, each for a different period, and never two for the same pair. *)
C6_OneOverlayPerPair ==
  Resolved =>
    \A n \in 1..Len(latest.call.teams) :
      LET T == latest.call.teams[n]
          periods == SelectedPeriods(latest.call, T)
          ovs == IF T \in DOMAIN highlightDataByTeam THEN highlightDataByTeam[T] ELSE <<>>
      IN /\ Len(ovs) = Cardinality(periods)
         /\ \A y \in periods :
              Cardinality({k \in 1..Len(ovs) : ovs[k].year = y}) = 1

\* one team with two selected periods and two overlays, another with one
C6_Witness ==
  /\ Resolved
  /\ \E T, U \in DOMAIN highlightDataByTeam :
       /\ T # U
       /\ Len(highlightDataByTeam[T]) = 2
       /\ highlightDataByTeam[T][1].year # highlightDataByTeam[T][2].year
       /\ Cardinality(SelectedPeriods(latest.call, T)) = 2
       /\ Len(highlightDataByTeam[U]) = 1

(* C7: a response that arrives after a newer call was issued does not update
   the chart: once every call has arrived, the rows, overlays and displayed
   teams are those computed from the most recently issued call. *)
C7_StaleResponseDiscarded ==
  (pending = {} /\ Resolved /\ teams # <<>>) =>
    /\ data = RowsOf(latest.call)
    /\ highlightDataByTeam = HighlightsOf(latest.call)
    /\ displayedTeams = latest.call.teams

\* the finite ratings of the displayed teams in the rows
FiniteShown ==
  {data[p[1]][p[2]].n :
     p \in {q \in (1..Len(data)) \X {displayedTeams[n] : n \in 1..Len(displayedTeams)} :
              /\ q[2] \in DOMAIN data[q[1]]
              /\ data[q[1]][q[2]].t = "number"}}

Least(S) == CHOOSE x \in S : \A y \in S : x <= y
Greatest(S) == CHOOSE x \in S : \A y \in S : y <= x

(* C8 as stated: values [10, 20, 30] give the domain [9.2, 30.8]. *)
C8_DomainOfExampleAsStated ==
  (Resolved /\ FiniteShown = {10, 20, 30}) =>
    yDomain = [auto |-> FALSE, lo |-> 920, hi |-> 3080]

(* C8, amended: with a positive span both bounds are padded by 8% of the span
   (max - min); values [10, 20, 30] give the domain [8.4, 31.6]. *)
C8_DomainPadsBySpan ==
  (Resolved /\ FiniteShown # {} /\ Greatest(FiniteShown) > Least(FiniteShown)) =>
    LET span == Greatest(FiniteShown) - Least(FiniteShown)
    IN /\ yDomain.auto = FALSE
       /\ yDomain.lo = 100 * Least(FiniteShown) - 8 * span
       /\ yDomain.hi = 100 * Greatest(FiniteShown) + 8 * span
       /\ (FiniteShown = {10, 20, 30}) => (yDomain.lo = 840 /\ yDomain.hi = 3160)

\* the values 10, 20 and 30 are on display
C8_Witness ==
  /\ Resolved
  /\ FiniteShown = {10, 20, 30}
  /\ yDomain = [auto |-> FALSE, lo |-> 840, hi |-> 3160]

(* C9: when all the values are equal to v the domain is [v - pad, v + pad] with
   pad = max(10, |v| * 0.08), never less than 10; [50, 50] gives [40, 60]. *)
C9_FlatDomainPad ==
  (Resolved /\ Cardinality(FiniteShown) = 1) =>
    LET v == Least(FiniteShown)
        abs == IF v < 0 THEN -v ELSE v
        pad == IF 8 * abs > 1000 THEN 8 * abs ELSE 1000
    IN /\ yDomain.auto = FALSE
       /\ yDomain.lo = 100 * v - pad
       /\ yDomain.hi = 100 * v + pad
       /\ yDomain.hi - yDomain.lo >= 2000
       /\ (v = 50) => (yDomain.lo = 4000 /\ yDomain.hi = 6000)

\* the value 50 is on display twice and nothing else
C9_Witness ==
  /\ Resolved
  /\ FiniteShown = {50}
  /\ \E i, j \in 1..Len(data) : \E T \in DOMAIN data[i] \cap DOMAIN data[j] :
       i # j /\ T # "date" /\ data[i][T] = Num(50) /\ data[j][T] = Num(50)
  /\ yDomain = [auto |-> FALSE, lo |-> 4000, hi |-> 6000]

(* C10: the domain is "auto" exactly when the rows hold no finite number for a
   displayed team; the values of teams not displayed, absent values and
   non-finite values have no part in the bounds. *)
C10_AutoIffNothingShown ==
  /\ yDomain.auto <=> (FiniteShown = {})
  /\ (FiniteShown # {}) =>
       LET lo == Least(FiniteShown)
           hi == Greatest(FiniteShown)
           abs == IF hi < 0 THEN -hi ELSE hi
           pad == IF hi > lo THEN 8 * (hi - lo)
                  ELSE IF 8 * abs > 1000 THEN 8 * abs ELSE 1000
       IN yDomain = [auto |-> FALSE, lo |-> 100 * lo - pad, hi |-> 100 * hi + pad]

\* rows with a finite value of a team that is not displayed and a non-finite
\* value of one that is, and no finite value on display
C10_Witness ==
  /\ Resolved
  /\ yDomain = Auto
  /\ displayedTeams # <<>>
  /\ \E i \in 1..Len(data) : \E T \in DOMAIN data[i] \ {"date"} :
       /\ \A n \in 1..Len(displayedTeams) : displayedTeams[n] # T
       /\ data[i][T].t = "number"
  /\ \E i \in 1..Len(data) : \E n \in 1..Len(displayedTeams) :
       /\ displayedTeams[n] \in DOMAIN data[i]
       /\ data[i][displayedTeams[n]] = Infinity

(* C11: the reconciled rows contain every aggregated row unchanged, no two of
   them have the same period key, and they are in ascending numeric order of
   the period key. *)
C11_ReconcileKeepsSortedUnique ==
  Resolved =>
    LET agg == Pivot(latest.call.res)
    IN /\ \A i \in 1..Len(agg) : \E j \in 1..Len(data) : data[j] = agg[i]
       /\ \A i, j \in 1..Len(data) : (data[i].date = data[j].date) => (i = j)
       /\ \A i \in 1..(Len(data) - 1) :
            NumberOf(data[i].date) < NumberOf(data[i + 1].date)

\* a blank row has been placed between two aggregated rows
C11_Witness ==
  /\ Resolved
  /\ LET agg == Pivot(latest.call.res)
     IN /\ Len(agg) >= 2
        /\ \A i \in 1..Len(agg) : \E j \in 1..Len(data) : data[j] = agg[i]
        /\ \E j \in 2..(Len(data) - 1) :
             /\ DOMAIN data[j] = {"date"}
             /\ data[j].date \notin InputYears(latest.call.res)
             /\ NumberOf(data[j - 1].date) < NumberOf(data[j].date)
             /\ NumberOf(data[j].date) < NumberOf(data[j + 1].date)

(* C12: when a team has no value in any row, every point of every overlay of
   that team is absent, and the response is processed without an error. *)
C12_NoValueNoAnchor ==
  Resolved =>
    /\ error = Null
    /\ \A T \in DOMAIN highlightDataByTeam :
         (\A i \in 1..Len(data) : ~Present(data[i], T)) =>
           \A k \in 1..Len(highlightDataByTeam[T]) :
             \A i \in 1..Len(highlightDataByTeam[T][k].data) :
               highlightDataByTeam[T][k].data[i][T] = Null

\* a team without any value is highlighted at a period that is a row, next to
\* a team that has values
C12_Witness ==
  /\ Resolved
  /\ error = Null
  /\ \E T \in DOMAIN highlightDataByTeam : \E U \in DOMAIN highlightDataByTeam :
       /\ \A i \in 1..Len(data) : ~Present(data[i], T)
       /\ \E i \in 1..Len(data) : Present(data[i], U)
       /\ Len(data) >= 2
       /\ \E k \in 1..Len(highlightDataByTeam[T]) :
            LET ov == highlightDataByTeam[T][k]
            IN /\ \E i \in 1..Len(data) : data[i].date = ov.year
               /\ Len(ov.data) = Len(data)
               /\ \A i \in 1..Len(ov.data) : ov.data[i][T] = Null

(* C13: building the overlays leaves the reconciled rows as they were: the
   stored rows are the rows reconciled before the overlays were built, and
   every value in them is the rating of an observation of that team in that
   period, never an anchor. *)
C13_OverlaysLeaveRowsAlone ==
  Resolved =>
    /\ data = RowsOf(latest.call)
    /\ \A i \in 1..Len(data) : \A T \in DOMAIN data[i] \ {"date"} :
         \E k \in 1..Len(latest.call.res) :
           /\ YearOf(latest.call.res[k]) = data[i].date
           /\ latest.call.res[k].team = T
           /\ latest.call.res[k].rating = data[i][T]

\* an anchor has been written into an overlay at a row that has no value
C13_Witness ==
  /\ Resolved
  /\ \E T \in DOMAIN highlightDataByTeam : \E k \in 1..Len(highlightDataByTeam[T]) :
       \E i \in 1..Len(data) :
         /\ highlightDataByTeam[T][k].year = data[i].date
         /\ highlightDataByTeam[T][k].data[i][T] # Null
         /\ T \notin DOMAIN data[i]
         /\ data = RowsOf(latest.call)

(* C14 as stated: when the team selection becomes empty no fetch is issued,
   the rows are emptied and the stored overlays are emptied. *)
C14_EmptySelectionClearsOverlays ==
  [][(teams # <<>> /\ teams' = <<>>) =>
       /\ issued' = issued
       /\ pending' = pending
       /\ data' = <<>>
       /\ highlightDataByTeam' = <<>>]_vars

(* C14: when the team selection becomes empty, whatever the state before, no
   fetch is issued, the rows and the displayed teams are emptied, and no
   highlight overlay is drawn; the stored overlays stay as they were. *)
C14_EmptySelectionDrawsNothing ==
  [][(teams # <<>> /\ teams' = <<>>) =>
       /\ issued' = issued
       /\ pending' = pending
       /\ data' = <<>>
       /\ displayedTeams' = <<>>
       /\ HighlightLines' = {}
       /\ highlightDataByTeam' = highlightDataByTeam]_vars

\* the selection was emptied while overlays were stored and a call in flight
C14_Witness ==
  /\ teams = <<>>
  /\ issued > 0
  /\ pending # {}
  /\ data = <<>>
  /\ displayedTeams = <<>>
  /\ highlightDataByTeam # <<>>
  /\ HighlightLines = {}

(* C15: when the call of the current render fails, the component stores a
   non-empty error message, replaces the rows with an empty sequence and sets
   the loading flag back to false. *)
C15_FailureSetsErrorAndClearsRows ==
  [][(latest.state = "pending" /\ latest'.state = "rejected") =>
       /\ error'.t = "string"
       /\ error'.s # ""
       /\ data' = <<>>
       /\ loading' = FALSE]_vars

\* a call failed without a message after an earlier response had been shown
C15_Witness ==
  /\ latest.state = "rejected"
  /\ pending = {}
  /\ highlightDataByTeam # <<>>
  /\ teams # <<>>
  /\ error = Str("Failed to load rating data")
  /\ data = <<>>
  /\ loading = FALSE

(* C16: for the observations (2021, A, 100), (2022, A, 110), (2022, B, 90),
   the teams A and B and the highlight 2023 for A alone, the rows are 2021
   with A = 100, 2022 with A = 110 and B = 90, and a blank 2023; A has one
   overlay, whose only point is 110 at 2023, and B has none. *)
C16_WorkedExample ==
  (/\ Resolved
   /\ Len(latest.call.res) = 3
   /\ {latest.call.res[k] : k \in 1..3} =
        {Ob(Mar2021, "A", Num(100)), Ob(Jan2022, "A", Num(110)), Ob(Jan2022, "B", Num(90))}
   /\ latest.call.selectedYear = Undefined
   /\ latest.call.selectedYearsByTeam = Obj(<<ByTeam("A", Arr(<<Str(Y2023)>>))>>))
  =>
    /\ data = << [date |-> Y2021, A |-> Num(100)],
                 [date |-> Y2022, A |-> Num(110), B |-> Num(90)],
                 [date |-> Y2023] >>
    /\ DOMAIN highlightDataByTeam = {"A"}
    /\ highlightDataByTeam["A"] =
         << [year |-> Y2023,
             data |-> << [date |-> Y2021, A |-> Null],
                         [date |-> Y2022, A |-> Null],
                         [date |-> Y2023, A |-> Num(110)] >>] >>

\* the example has been processed, the observations in the order given
C16_Witness ==
  /\ Resolved
  /\ latest.call.res =
       <<Ob(Mar2021, "A", Num(100)), Ob(Jan2022, "A", Num(110)), Ob(Jan2022, "B", Num(90))>>
  /\ latest.call.teams = <<"A", "B">>
  /\ latest.call.selectedYear = Undefined
  /\ latest.call.selectedYearsByTeam = Obj(<<ByTeam("A", Arr(<<Str(Y2023)>>))>>)
  /\ Len(data) = 3
  /\ data[3] = [date |-> Y2023]
  /\ highlightDataByTeam["A"][1].data[3]["A"] = Num(110)

\* the array the shapes of a parsed payload stand for: the inner array of
\* {data: [...]}, an array itself, nothing for any other value
RECURSIVE NullForNaN(_)
NullForNaN(v) ==
  IF v.t = "nan" THEN Null
  ELSE IF v.t = "array" THEN Arr([i \in 1..Len(v.a) |-> NullForNaN(v.a[i])])
  ELSE IF v.t = "object"
  THEN Obj([i \in 1..Len(v.e) |-> Member(v.e[i].k, NullForNaN(v.e[i].v))])
  ELSE v

InnerArrays(v) ==
  IF v.t = "object"
  THEN {v.e[i].v : i \in {j \in 1..Len(v.e) : v.e[j].k = DataKey /\ v.e[j].v.t = "array"}}
  ELSE {}

ExpectedSeries(v) ==
  IF InnerArrays(v) # {} THEN CHOOSE a \in InnerArrays(v) : TRUE
  ELSE IF v.t = "array" THEN v
  ELSE Arr(<<>>)

Settled == series.state \in {"fulfilled", "rejected"}

(* C18: getRatingsSeries resolves to an array whatever the payload: a text is
   parsed with every NaN read as null, {data: [...]} gives the inner array, an
   array gives itself, and a text that is not JSON or a value of any other
   shape gives the empty array; the call never rejects. *)
C18_SeriesAlwaysAnArray ==
  Settled =>
    /\ series.outcome.state = "fulfilled"
    /\ series.outcome.value.t = "array"
    /\ \A v \in BodyValues :
         (series.payload = Str(BodyOf(v))) =>
           series.outcome.value = ExpectedSeries(NullForNaN(v))
    /\ (series.payload.t = "string" /\ series.payload.s \in UnparsableTexts) =>
         series.outcome.value = Arr(<<>>)
    /\ (series.payload.t # "string") =>
         series.outcome.value = ExpectedSeries(series.payload)

\* a body {"data": [row]} whose rating is NaN has been read as the row with a
\* null rating
C18_Witness ==
  /\ Settled
  /\ series.payload =
       Str(BodyOf(Obj(<<Member(DataKey, Arr(<<Row(Y2021, "A", NotANumber)>>))>>)))
  /\ series.outcome = Fulfilled(Arr(<<Row(Y2021, "A", Null)>>))

\* the prediction requests in flight
PredictCalls(calls) == {c \in calls : c.kind = "predict"}

\* a side lacks its team or its season, or both sides hold one team and one season
FormInvalid(f) ==
  \/ f.homeTeam = "" \/ f.awayTeam = ""
  \/ f.homeSeason = Undefined \/ f.awaySeason = Undefined
  \/ (f.homeTeam = f.awayTeam /\ f.homeSeason = f.awaySeason)

(* C19: a prediction request is issued only by a submission of a form in which
   both teams and both seasons are set and the teams or the seasons differ,
   and it carries that selection; a submission of any other form sets an
   error message and issues no request. *)
C19_NoInvalidPrediction ==
  [][/\ (PredictCalls(formCalls') \ PredictCalls(formCalls) # {}) =>
          /\ event' = "onPredict"
          /\ ~FormInvalid(form)
          /\ PredictCalls(formCalls') \ PredictCalls(formCalls) =
               {[kind |-> "predict",
                 body |-> [home_team |-> form.homeTeam, home_season |-> form.homeSeason,
                           away_team |-> form.awayTeam, away_season |-> form.awaySeason]]}
     /\ (event' = "onPredict" /\ FormInvalid(form)) =>
          /\ form'.error # ""
          /\ formCalls' = formCalls]_vars

\* one team and one season on both sides have been submitted and refused
C19_Witness ==
  /\ event = "onPredict"
  /\ form.homeTeam = "A" /\ form.awayTeam = "A"
  /\ form.homeSeason = Num(2022) /\ form.awaySeason = Num(2022)
  /\ form.error = "If the same team is chosen the seasons must differ"
  /\ PredictCalls(formCalls) = {}
  /\ ~form.loading

(* C20: a season chosen on one side is copied to the other side when linking
   is enabled and the two sides hold different teams; when both sides hold
   the same team it leaves the other side's season as it was, whatever the
   link flag holds. *)
C20_SeasonLinking ==
  [][/\ (event' = "onHomeSeasonChange") =>
          /\ (form.linkSeasons /\ form.homeTeam # "" /\ form.awayTeam # ""
                /\ form.homeTeam # form.awayTeam) =>
               form'.awaySeason = form'.homeSeason
          /\ (form.homeTeam # "" /\ form.homeTeam = form.awayTeam) =>
               form'.awaySeason = form.awaySeason
     /\ (event' = "onAwaySeasonChange") =>
          /\ (form.linkSeasons /\ form.homeTeam # "" /\ form.awayTeam # ""
                /\ form.homeTeam # form.awayTeam) =>
               form'.homeSeason = form'.awaySeason
          /\ (form.homeTeam # "" /\ form.homeTeam = form.awayTeam) =>
               form'.homeSeason = form.homeSeason]_vars

\* with one team on both sides and the link flag still set, a season chosen
\* for the home side has left the away side alone
C20_Witness ==
  /\ event = "onHomeSeasonChange"
  /\ form.homeTeam = "A" /\ form.awayTeam = "A"
  /\ form.linkSeasons
  /\ form.homeSeason = Num(2021)
  /\ form.awaySeason = Num(2022)

\* with different teams and linking enabled, a season chosen for the home
\* side, not the one selected automatically, has been copied to the away side
LinkedChoice ==
  /\ event = "onHomeSeasonChange"
  /\ form.homeTeam = "A" /\ form.awayTeam = "B"
  /\ form.linkSeasons
  /\ form.homeSeason = Num(2021)
  /\ form.awaySeason = Num(2021)
  /\ form.awaySeasons = <<Num(2021)>>

\* the team selected on one side
TeamOf(f, side) == IF side = "home" THEN f.homeTeam ELSE f.awayTeam

\* the step is the arrival of a seasons answer: one seasons call leaves the
\* calls in flight, no call joins them, and the teams and the page stay
SeasonsAnswer(c) ==
  /\ c \in formCalls /\ c.kind = "seasons"
  /\ formCalls' = formCalls \ {c} /\ formCalls' # formCalls
  /\ form'.mounted = form.mounted
  /\ form'.homeTeam = form.homeTeam /\ form'.awayTeam = form.awayTeam

SeasonsTouched ==
  \/ form'.homeSeasons # form.homeSeasons \/ form'.awaySeasons # form.awaySeasons
  \/ form'.homeSeason # form.homeSeason \/ form'.awaySeason # form.awaySeason

(* C21: an answer to a seasons request changes the season lists or the
   selected seasons only when the page is mounted and the request is the one
   issued at the latest change of its side's team, so that it is for the team
   now selected on that side, and then it sets that side's list; an answer
   that arrives after the team was changed again, or after the page was left,
   changes nothing, and nothing of the form changes once the page is left. *)
C21_StaleSeasonsIgnored ==
  [][/\ \A c \in formCalls :
          (SeasonsAnswer(c) /\ SeasonsTouched) =>
             /\ form.mounted
             /\ c.active
             /\ c.team = TeamOf(form, c.side)
             /\ \A d \in formCalls \ {c} :
                  (d.kind = "seasons" /\ d.side = c.side) => ~d.active
             /\ IF c.side = "home"
                THEN form'.homeSeasons = SeasonsOf(form.homeTeam)
                       /\ form'.awaySeasons = form.awaySeasons
                ELSE form'.awaySeasons = SeasonsOf(form.awayTeam)
                       /\ form'.homeSeasons = form.homeSeasons
     /\ (event' = "inactive") => form' = form
     /\ ~form.mounted => form' = form]_vars

\* the answer for an earlier home team has arrived and been ignored while the
\* request for the team now selected is still in flight
C21_Witness ==
  /\ event = "inactive"
  /\ form.mounted
  /\ form.homeTeam = "B" /\ form.homeSeasons = <<>> /\ form.homeSeason = Undefined
  /\ \E c \in formCalls : c.kind = "seasons" /\ c.side = "home" /\ c.active /\ c.team = "B"
  /\ \A c \in formCalls : c.kind = "seasons" => c.active

\* the page was left with a home seasons request in flight, whose answer
\* has arrived since
IgnoredAfterUnmount ==
  /\ event = "inactive"
  /\ ~form.mounted
  /\ form.homeTeam = "A" /\ form.homeSeasons = <<>>
  /\ formCalls = {}

\* the season list of one side
SeasonsListOf(f, side) == IF side = "home" THEN f.homeSeasons ELSE f.awaySeasons

(* C22: after resetAll, once no request is pending, the season list of each
   side that has a team is the season list of that team; stated for the
   states that follow a reset with no request in flight. *)
C22_ResetReloadsSeasons ==
  (event = "resetAll" /\ form.mounted /\ formCalls = {}) =>
     \A side \in {"home", "away"} :
        TeamOf(form, side) # "" =>
           SeasonsListOf(form, side) = SeasonsOf(TeamOf(form, side))

(* C23: loading is true while a call of getRatingsSeries issued by the chart
   has not arrived, also when several calls overlap. *)
C23_LoadingWhilePending == (pending # {}) => loading

\* the entries of the per-team selection of a call that are for team T
EntriesOf(call, T) ==
  IF call.selectedYearsByTeam.t = "object"
  THEN {i \in 1..Len(call.selectedYearsByTeam.e) :
          /\ call.selectedYearsByTeam.e[i].k = T
          /\ ~IsNullish(call.selectedYearsByTeam.e[i].v)}
  ELSE {}

\* the periods of the overlays stored for a team
OverlayYears(T) ==
  IF T \in DOMAIN highlightDataByTeam
  THEN {highlightDataByTeam[T][k].year : k \in 1..Len(highlightDataByTeam[T])}
  ELSE {}

(* C24: a team with an entry in the per-team selection has overlays for the
   periods of that entry and for no other period, so none for the global
   period unless the entry names it and none at all for an empty list; a
   team without an entry has one overlay, at the global period, when that is
   set, and none otherwise. *)
C24_PerTeamOverridesGlobal ==
  Resolved =>
    \A n \in 1..Len(latest.call.teams) :
      LET T == latest.call.teams[n]
          call == latest.call
          own == UNION {PeriodsOfValue(call.selectedYearsByTeam.e[i].v) :
                          i \in EntriesOf(call, T)}
      IN IF EntriesOf(call, T) # {}
         THEN /\ OverlayYears(T) = own
              /\ (own = {}) => T \notin DOMAIN highlightDataByTeam
         ELSE IF ~IsNullish(call.selectedYear)
         THEN /\ T \in DOMAIN highlightDataByTeam
              /\ Len(highlightDataByTeam[T]) = 1
              /\ highlightDataByTeam[T][1].year = StringOf(call.selectedYear)
         ELSE T \notin DOMAIN highlightDataByTeam

\* with the global period 2021 and an entry for team A that names 2022 and
\* 2023, A has overlays at 2022 and 2023 only and B has one at 2021
C24_Witness ==
  /\ Resolved
  /\ latest.call.teams = <<"A", "B">>
  /\ latest.call.selectedYear = Str(Y2021)
  /\ EntriesOf(latest.call, "A") # {} /\ EntriesOf(latest.call, "B") = {}
  /\ OverlayYears("A") = {Y2022, Y2023}
  /\ Len(highlightDataByTeam["A"]) = 2
  /\ OverlayYears("B") = {Y2021}
  /\ Len(highlightDataByTeam["B"]) = 1

\* with the global period 2022 and an empty list for team A, A has no overlay
\* and B has one at 2022
EmptyEntryNoOverlay ==
  /\ Resolved
  /\ latest.call.teams = <<"A", "B">>
  /\ latest.call.selectedYear = Num(2022)
  /\ latest.call.selectedYearsByTeam = Obj(<<ByTeam("A", Arr(<<>>))>>)
  /\ DOMAIN highlightDataByTeam = {"B"}
  /\ OverlayYears("B") = {Y2022}

(* C25: for every team passed to the chart and every period selected for it,
   its own periods or else the global one, whatever value other than null
   and undefined names it, the reconciled rows hold a row for that period and
   the team's overlay for it has its point there: the team's value, or the
   anchor when the team has no value in that row. *)
C25_RowForEveryHighlightPeriod ==
  Resolved =>
    \A n \in 1..Len(latest.call.teams) :
      LET T == latest.call.teams[n]
      IN \A y \in SelectedPeriods(latest.call, T) :
           \E i \in 1..Len(data) :
             /\ data[i].date = y
             /\ \E k \in 1..Len(OverlaysOf(T)) :
                  /\ OverlaysOf(T)[k].year = y
                  /\ OverlaysOf(T)[k].data[i][T] =
                       IF Present(data[i], T) THEN data[i][T]
                       ELSE ExpectedAnchor(data, T, i)

\* the finite points of the overlays drawn for the displayed teams
OverlayPoints ==
  UNION {{highlightDataByTeam[T][k].data[i][T].n :
            <<k, i>> \in {q \in (1..Len(highlightDataByTeam[T])) \X (1..Len(data)) :
                            highlightDataByTeam[T][q[1]].data[q[2]][T].t = "number"}} :
         T \in uniqueTeamsOf(displayedTeams) \cap DOMAIN highlightDataByTeam}

(* C26: when the domain is numeric, its lower bound is below and its upper
   bound above every finite rating of a displayed team in the rows, with
   neither equal to one, and so is every finite point, the team's own value or
   an anchor, of the overlays of the displayed teams. *)
C26_DomainContainsValues ==
  (yDomain.auto = FALSE) =>
    /\ \A v \in FiniteShown : yDomain.lo < 100 * v /\ 100 * v < yDomain.hi
    /\ \A v \in OverlayPoints : yDomain.lo < 100 * v /\ 100 * v < yDomain.hi

\* 50 is the one value on display and the overlay at 2022, where the team
\* has no value, is anchored at it
C26_Witness ==
  /\ Resolved
  /\ yDomain.auto = FALSE
  /\ FiniteShown = {50}
  /\ OverlayPoints = {50}
  /\ \E i \in 1..Len(data) :
       /\ data[i].date = Y2022
       /\ ~Present(data[i], "A")
       /\ OverlaysOf("A")[1].data[i]["A"] = Num(50)

\* a numeric domain over several values, one of them negative, with an
\* overlay point that is the team's own value
SpreadDomain ==
  /\ Resolved
  /\ yDomain.auto = FALSE
  /\ Least(FiniteShown) < 0 /\ Greatest(FiniteShown) > 0
  /\ OverlayPoints # {}
  /\ \E i \in 1..Len(data) :
       data[i].date = Y2022 /\ Present(data[i], "A")

====
